---- MODULE Spec2Model ----
(***************************************************************************)
(* Model of the patch engine of aidien (src/aidien/query_processor.py):    *)
(* QueryProcessor._flexible_pattern, which turns a literal snippet into a  *)
(* regular expression, and QueryProcessor._apply_instruction, which uses   *)
(* the compiled expression to update, insert into or delete from a text.   *)
(*                                                                         *)
(* A text is a sequence of one-character strings.  Offsets are counted as  *)
(* in Python: offset p lies before character p+1 of the sequence.          *)
(***************************************************************************)
EXTENDS Integers, Sequences, FiniteSets, TLC

VARIABLES pc, text, instruction, content, found, outcome,
          batch, disk, disk0, groups, group, position, gstate, loaded

vars == <<pc, text, instruction, content, found, outcome,
          batch, disk, disk0, groups, group, position, gstate, loaded>>

\* The variables of _apply_instructions, which the matcher and
\* _apply_instruction on their own leave alone.
files == <<batch, disk, disk0, groups, group, position, gstate, loaded>>

----------------------------------------------------------------------------
(* Characters *)

SP  == " "
TAB == "\t"
LF  == "\n"
CR  == "\r"
BSL == "\\"

\* The characters of the model's alphabets that \s matches.
Whitespace == {SP, TAB, LF, CR}

\* The characters of the model's alphabets at which str.splitlines() breaks.
LineBreaks == {LF, CR}

\* The letters and digits of the model's alphabets (an escaped one is not a
\* literal for the regular-expression and template parsers).
AlNum == {"a", "b", "c", "w", "s", "n", "r", "t", "I", "1"}

\* The characters of the model's alphabets that re.escape() escapes.
SpecialChars == {SP, TAB, LF, CR, BSL, "+", "?"}

NoMatch == -1

\* All texts over alphabet A of length at most n.
Strings(A, n) == UNION {[1..k -> A] : k \in 0..n}

RECURSIVE Concat(_)
Concat(seqs) == IF seqs = <<>> THEN <<>> ELSE Head(seqs) \o Concat(Tail(seqs))

\* sep.join(parts)
RECURSIVE Join(_, _)
Join(sep, parts) ==
    IF parts = <<>> THEN <<>>
    ELSE IF Len(parts) = 1 THEN parts[1]
    ELSE parts[1] \o sep \o Join(sep, Tail(parts))

\* s[from:] with a Python offset
Suffix(s, from) == SubSeq(s, from + 1, Len(s))

\* s[:to] with a Python offset
Prefix(s, to) == SubSeq(s, 1, to)

----------------------------------------------------------------------------
(* _flexible_pattern *)

\* text.splitlines(): breaks at \n, \r and \r\n; the breaks are dropped and a
\* text ending in a break has no empty last line.
RECURSIVE SplitFrom(_, _, _, _)
SplitFrom(s, i, cur, acc) ==
    IF i > Len(s) THEN (IF cur = <<>> THEN acc ELSE Append(acc, cur))
    ELSE IF s[i] = CR /\ i < Len(s) /\ s[i + 1] = LF
         THEN SplitFrom(s, i + 2, <<>>, Append(acc, cur))
    ELSE IF s[i] \in LineBreaks
         THEN SplitFrom(s, i + 1, <<>>, Append(acc, cur))
    ELSE SplitFrom(s, i + 1, Append(cur, s[i]), acc)

splitlines(s) == SplitFrom(s, 1, <<>>, <<>>)

\* Length of group 1 of re.match(r'^(\s*)(.*)$', line): the longest prefix of
\* whitespace.  A line holds no line break, so the match always succeeds.
IndentLen(line) ==
    CHOOSE n \in 0..Len(line) :
        /\ \A i \in 1..n : line[i] \in Whitespace
        /\ n = Len(line) \/ line[n + 1] \notin Whitespace

indent(line) == Prefix(line, IndentLen(line))

\* re.split(r'\s+', content) without its empty strings.
RECURSIVE TokensFrom(_, _, _, _)
TokensFrom(s, i, cur, acc) ==
    IF i > Len(s) THEN (IF cur = <<>> THEN acc ELSE Append(acc, cur))
    ELSE IF s[i] \in Whitespace
         THEN TokensFrom(s, i + 1, <<>>, IF cur = <<>> THEN acc ELSE Append(acc, cur))
    ELSE TokensFrom(s, i + 1, Append(cur, s[i]), acc)

tokens(line) == TokensFrom(Suffix(line, IndentLen(line)), 1, <<>>, <<>>)

\* re.escape(s): a backslash before every special character.
RECURSIVE escape(_)
escape(s) ==
    IF s = <<>> THEN <<>>
    ELSE (IF Head(s) \in SpecialChars THEN <<BSL, Head(s)>> ELSE <<Head(s)>>)
         \o escape(Tail(s))

\* r'\s+' and r'\r?\n'
WsPlus     == <<BSL, "s", "+">>
NewlinePat == <<BSL, "r", "?", BSL, "n">>

\* The pattern of one line: the escaped indentation, then the escaped tokens
\* with \s+ between them.
pattern_line(line) ==
    LET toks == tokens(line) IN
    IF toks # <<>>
    THEN escape(indent(line)) \o escape(toks[1])
         \o Concat([k \in 1..(Len(toks) - 1) |-> WsPlus \o escape(toks[k + 1])])
    ELSE escape(indent(line))

pattern_lines(s) ==
    LET lines == splitlines(s) IN [i \in 1..Len(lines) |-> pattern_line(lines[i])]

flexible_pattern(s) == Join(NewlinePat, pattern_lines(s))

----------------------------------------------------------------------------
(* re.compile and the matching of the compiled pattern *)

\* re.compile(pattern_str, re.MULTILINE | re.DOTALL) for the grammar that
\* _flexible_pattern emits: literals, escaped characters, \s, \r, \n, and the
\* quantifiers + and ?.  The code is a sequence of items [set, q]: one
\* character of `set`, repeated as q says.
CompileError == [ok |-> FALSE, code |-> <<>>]

ClassOf(c, escaped) ==
    IF ~escaped THEN {c}
    ELSE CASE c = "s" -> Whitespace
           [] c = "n" -> {LF}
           [] c = "r" -> {CR}
           [] c = "t" -> {TAB}
           [] OTHER   -> {c}

RECURSIVE ParseFrom(_, _, _)
ParseFrom(p, i, acc) ==
    IF i > Len(p) THEN [ok |-> TRUE, code |-> acc]
    ELSE LET escaped == p[i] = BSL IN
         IF escaped /\ i = Len(p) THEN CompileError        \* bad escape (end of pattern)
         ELSE IF ~escaped /\ p[i] \in {"+", "?"} THEN CompileError   \* nothing to repeat
         ELSE LET c == IF escaped THEN p[i + 1] ELSE p[i]
                  j == IF escaped THEN i + 2 ELSE i + 1
                  q == IF j <= Len(p) /\ p[j] \in {"+", "?"} THEN p[j] ELSE "1"
                  k == IF q = "1" THEN j ELSE j + 1
              IN IF escaped /\ c \in AlNum \ {"s", "n", "r", "t"}
                 THEN CompileError                           \* bad escape
                 ELSE ParseFrom(p, k, Append(acc, [set |-> ClassOf(c, escaped), q |-> q]))

compile(pattern_str) == ParseFrom(pattern_str, 1, <<>>)

\* Number of consecutive characters of s from offset p that lie in set, at
\* most max.
RECURSIVE RunLen(_, _, _, _)
RunLen(s, p, set, max) ==
    IF max = 0 \/ p >= Len(s) \/ s[p + 1] \notin set THEN 0
    ELSE 1 + RunLen(s, p + 1, set, max - 1)

\* The backtracking matcher: the end offset of the match of items j.. of the
\* code at offset p of s, or NoMatch.  A quantified item takes as many
\* characters as it can and gives them back one by one.
RECURSIVE MatchFrom(_, _, _, _)
RECURSIVE GiveBack(_, _, _, _, _, _)
MatchFrom(code, j, s, p) ==
    IF j > Len(code) THEN p
    ELSE LET item == code[j]
             most == RunLen(s, p, item.set, IF item.q = "+" THEN Len(s) ELSE 1)
             least == IF item.q = "?" THEN 0 ELSE 1
         IN GiveBack(code, j, s, p, most, least)

GiveBack(code, j, s, p, n, least) ==
    IF n < least THEN NoMatch
    ELSE LET e == MatchFrom(code, j + 1, s, p + n) IN
         IF e # NoMatch THEN e ELSE GiveBack(code, j, s, p, n - 1, least)

\* pattern.match at offset p
MatchEnd(code, s, p) == MatchFrom(code, 1, s, p)

\* The offsets of s at which the pattern matches.
MatchStarts(code, s) == {p \in 0..Len(s) : MatchEnd(code, s, p) # NoMatch}

None == [start |-> NoMatch, end |-> NoMatch]

\* pattern.search(s, pos): the leftmost match at or after pos.
search(code, s, pos) ==
    LET starts == {p \in MatchStarts(code, s) : p >= pos} IN
    IF starts = {} THEN None
    ELSE LET p == CHOOSE q \in starts : \A r \in starts : q <= r
         IN [start |-> p, end |-> MatchEnd(code, s, p)]

----------------------------------------------------------------------------
(* pattern.subn and the replacement template *)

TemplateError == [ok |-> FALSE, lit |-> <<>>]

\* The template parser that pattern.subn(replace, ...) runs on `replace`
\* before it looks for a match.  The pattern has no group, so every group
\* reference is invalid and the template, when it is valid, stands for one
\* literal text.  After a backslash: a backslash gives one backslash; n, r
\* and t give the control character; a digit other than 0 is a group
\* reference, or with two more octal digits the character of that code; any
\* other letter is a bad escape; any other character stays with its
\* backslash.  A backslash at the end is a bad escape.
RECURSIVE TemplateFrom(_, _, _)
TemplateFrom(t, i, acc) ==
    IF i > Len(t) THEN [ok |-> TRUE, lit |-> acc]
    ELSE IF t[i] # BSL THEN TemplateFrom(t, i + 1, Append(acc, t[i]))
    ELSE IF i = Len(t) THEN TemplateError                \* bad escape (end of pattern)
    ELSE LET c == t[i + 1] IN
         CASE c = BSL -> TemplateFrom(t, i + 2, Append(acc, BSL))
           [] c = "n" -> TemplateFrom(t, i + 2, Append(acc, LF))
           [] c = "r" -> TemplateFrom(t, i + 2, Append(acc, CR))
           [] c = "t" -> TemplateFrom(t, i + 2, Append(acc, TAB))
           [] c = "1" ->
                IF i + 3 <= Len(t) /\ t[i + 2] = "1" /\ t[i + 3] = "1"
                THEN TemplateFrom(t, i + 4, Append(acc, "I"))   \* chr(0o111)
                ELSE TemplateError                       \* invalid group reference
           [] c \in AlNum \ {"n", "r", "t", "1"} -> TemplateError   \* bad escape
           [] OTHER -> TemplateFrom(t, i + 2, acc \o <<BSL, c>>)

parse_template(t) == TemplateFrom(t, 1, <<>>)

\* The substitution loop of pattern.subn: every match from left to right,
\* each search starting where the previous match ended; the text between the
\* matches is copied.  A pattern of _flexible_pattern that matches the empty
\* text is the empty pattern, so that after an empty match the next character
\* is copied and the search goes on behind it.
RECURSIVE SubFrom(_, _, _, _, _, _)
SubFrom(code, repl, s, pos, acc, n) ==
    LET m == search(code, s, pos) IN
    IF m = None THEN [ret |-> acc \o Suffix(s, pos), n |-> n]
    ELSE LET out == acc \o SubSeq(s, pos + 1, m.start) \o repl IN
         IF m.end > m.start THEN SubFrom(code, repl, s, m.end, out, n + 1)
         ELSE IF m.start >= Len(s) THEN [ret |-> out, n |-> n + 1]
         ELSE SubFrom(code, repl, s, m.start + 1, Append(out, s[m.start + 1]), n + 1)

\* A bug to measure the claims against: only the first match is substituted
\* (subn with count=1).
subn_first(code, repl, s) ==
    LET m == search(code, s, 0) IN
    IF m = None THEN [ret |-> s, n |-> 0]
    ELSE [ret |-> Prefix(s, m.start) \o repl \o Suffix(s, m.end), n |-> 1]

\* pattern.subn(repl, s) for a literal repl: the new text and the number of
\* substitutions.
subn(code, repl, s) == SubFrom(code, repl, s, 0, <<>>, 0)

----------------------------------------------------------------------------
(* _apply_instruction *)

Raised == [raised |-> TRUE, ret |-> <<>>, warned |-> FALSE]

Returned(s, warning) == [raised |-> FALSE, ret |-> s, warned |-> warning]

\* A bug to measure the claims against: `replace` is not tested.
is_update_unguarded(instr) == instr.type = "update" /\ instr.find # <<>>

\* line 214
is_update(instr) ==
    instr.type = "update" /\ instr.find # <<>> /\ instr.replace # <<>>

\* line 225
is_insert(instr) ==
    instr.type = "insert" /\ instr.find # <<>> /\ instr.write # <<>>

\* line 238
is_delete(instr) == instr.type = "delete" /\ instr.find # <<>>

\* lines 215-222
update(code, replace, s) ==
    LET t == parse_template(replace) IN
    IF ~t.ok THEN Raised
    ELSE LET r == subn(code, t.lit, s) IN Returned(r.ret, r.n = 0)

\* A bug to measure the claims against: the text is written in front of the
\* match (match.start() for match.end()).
insert_before(code, write_text, s) ==
    LET m == search(code, s, 0) IN
    IF m # None
    THEN Returned(Prefix(s, m.start) \o <<LF>> \o write_text \o Suffix(s, m.start), FALSE)
    ELSE Returned(s, TRUE)

\* lines 226-235
insert(code, write_text, s) ==
    LET m == search(code, s, 0) IN
    IF m # None
    THEN Returned(Prefix(s, m.end) \o <<LF>> \o write_text \o Suffix(s, m.end), FALSE)
    ELSE Returned(s, TRUE)

\* lines 239-246
delete(code, s) ==
    LET r == subn(code, <<>>, s) IN Returned(r.ret, r.n = 0)

\* _apply_instruction(instruction, content): what it returns, whether it
\* raises and whether it logs a warning.
apply_instruction(instr, s) ==
    LET pattern == IF instr.find # <<>>
                   THEN compile(flexible_pattern(instr.find))
                   ELSE [ok |-> TRUE, code |-> <<>>]
    IN IF ~pattern.ok THEN Raised
       ELSE IF is_update(instr) THEN update(pattern.code, instr.replace, s)
       ELSE IF is_insert(instr) THEN insert(pattern.code, instr.write, s)
       ELSE IF is_delete(instr) THEN delete(pattern.code, s)
       ELSE Returned(s, FALSE)

----------------------------------------------------------------------------
(* _apply_instructions: the files, and the grouping of a batch by filename  *)

\* A name longer than the file system allows: Path(name).exists() raises
\* OSError (ENAMETOOLONG) for it instead of answering.
TooLong == "aaa...a.py"

\* The file a filename names (Path(filename), line 265). Two spellings name
\* the first file.
Resolve(filename) == IF filename \in {"a.py", "./a.py"} THEN "a.py" ELSE filename

\* os.linesep of a POSIX build, which a text-mode write puts for every \n
linesep == <<LF>>

\* f.read() of a file opened in text mode (line 271): \r\n and \r are read
\* as \n.
RECURSIVE universal_newlines(_)
universal_newlines(bytes) ==
    IF bytes = <<>> THEN <<>>
    ELSE IF Head(bytes) = CR
         THEN IF Len(bytes) >= 2 /\ bytes[2] = LF
              THEN <<LF>> \o universal_newlines(Suffix(bytes, 2))
              ELSE <<LF>> \o universal_newlines(Tail(bytes))
         ELSE <<Head(bytes)>> \o universal_newlines(Tail(bytes))

\* f.write(content) of a file opened in text mode (line 279)
RECURSIVE write_newlines(_)
write_newlines(s) ==
    IF s = <<>> THEN <<>>
    ELSE (IF Head(s) = LF THEN linesep ELSE <<Head(s)>>) \o write_newlines(Tail(s))

\* file_path.exists() (line 266): whether it raises, and its answer
exists_raises(filename) == filename = TooLong

exists(d, filename) == d[Resolve(filename)].kind # "missing"

\* open(file_path, 'r') and f.read() (lines 271-272): a directory cannot be
\* opened.
read_raises(d, filename) == d[Resolve(filename)].kind = "dir"

read(d, filename) == universal_newlines(d[Resolve(filename)].bytes)

\* open(file_path, 'w') and f.write(content) (lines 278-279): a read-only
\* file cannot be opened for writing and is left as it is.
write_raises(d, filename) == d[Resolve(filename)].kind # "file"

write(d, filename, s) ==
    [d EXCEPT ![Resolve(filename)].bytes = write_newlines(s)]

\* The keys of instructions_by_file in the order the dictionary holds
\* them, that of their first instruction in the batch (lines 258-261).
RECURSIVE KeysFrom(_, _, _)
KeysFrom(b, i, acc) ==
    IF i > Len(b) THEN acc
    ELSE IF b[i].filename # "" /\ \A j \in 1..Len(acc) : acc[j] # b[i].filename
         THEN KeysFrom(b, i + 1, Append(acc, b[i].filename))
         ELSE KeysFrom(b, i + 1, acc)

instructions_by_file_keys(b) == KeysFrom(b, 1, <<>>)

\* A bug to measure the claims against: the instructions of a file are
\* collected last first.
RECURSIVE instructions_by_file_reversed(_, _)
instructions_by_file_reversed(b, filename) ==
    IF b = <<>> THEN <<>>
    ELSE instructions_by_file_reversed(Tail(b), filename)
         \o (IF Head(b).filename = filename THEN <<Head(b)>> ELSE <<>>)

\* instructions_by_file[filename] (lines 258-261)
RECURSIVE instructions_by_file(_, _)
instructions_by_file(b, filename) ==
    IF b = <<>> THEN <<>>
    ELSE (IF Head(b).filename = filename THEN <<Head(b)>> ELSE <<>>)
         \o instructions_by_file(Tail(b), filename)

\* The loop of lines 274-276 from instruction i on: the content it ends
\* with, or the exception of the first instruction that raises.
RECURSIVE ApplyFrom(_, _, _)
ApplyFrom(file_instructions, i, s) ==
    IF i > Len(file_instructions) THEN Returned(s, FALSE)
    ELSE LET o == apply_instruction(file_instructions[i], s) IN
         IF o.raised THEN Raised
         ELSE ApplyFrom(file_instructions, i + 1, o.ret)

\* The body of the loop of line 263 for one filename whose existence check
\* answers (lines 265-284): the files it leaves.
process_group(d, b, filename) ==
    IF ~exists(d, filename) \/ read_raises(d, filename) THEN d
    ELSE LET o == ApplyFrom(instructions_by_file(b, filename), 1, read(d, filename)) IN
         IF o.raised \/ write_raises(d, filename) THEN d
         ELSE write(d, filename, o.ret)

\* The loop of line 263 over the filenames `order` from the i-th on: the
\* files it leaves. An existence check that raises ends it.
RECURSIVE process_groups(_, _, _, _)
process_groups(d, b, order, i) ==
    IF i > Len(order) \/ exists_raises(order[i]) THEN d
    ELSE process_groups(process_group(d, b, order[i]), b, order, i + 1)

\* Before _apply_instructions is called
NoFiles ==
    /\ batch = <<>>
    /\ disk = <<>>
    /\ disk0 = <<>>
    /\ groups = <<>>
    /\ group = 0
    /\ position = 0
    /\ gstate = <<>>
    /\ loaded = <<>>

----------------------------------------------------------------------------
(* The matcher on its own: a snippet is compiled as _apply_instruction      *)
(* compiles `find` and is searched for in a text.                           *)

MaxSnippet   == 6
MaxCandidate == 3
MaxRun       == 2

SnippetChars   == {"a", SP, LF, CR}
CandidateChars == {"a", SP, LF}

Snippets   == Strings(SnippetChars, MaxSnippet)
Candidates == Strings(CandidateChars, MaxCandidate)
Runs       == Strings({SP, TAB}, MaxRun) \ {<<>>}

NoInstruction == [type |-> "", find |-> <<>>, replace |-> <<>>, write |-> <<>>]
NoOutcome     == [raised |-> FALSE, ret |-> <<>>, warned |-> FALSE]

\* The compiled pattern of a snippet and its first match in s, as lines
\* 208-209 and pattern.search produce them.
Matcher(snippet) == compile(flexible_pattern(snippet)).code

FirstMatch(snippet, s) == search(Matcher(snippet), s, 0)

\* The runs of blanks of s that stand between two tokens of one line, as
\* pairs <<first, last>> of positions.
TokenGaps(s) ==
    {g \in (1..Len(s)) \X (1..Len(s)) :
        /\ g[1] <= g[2]
        /\ \A i \in g[1]..g[2] : s[i] \in {SP, TAB}
        /\ g[1] > 1 /\ s[g[1] - 1] \notin Whitespace
        /\ g[2] < Len(s) /\ s[g[2] + 1] \notin Whitespace}

InitMatch ==
    /\ pc = "start"
    /\ text \in Snippets
    /\ content = <<>>
    /\ found = None
    /\ instruction = NoInstruction
    /\ outcome = NoOutcome
    /\ NoFiles

\* The snippet is searched for in an arbitrary text.
MatchCandidate ==
    /\ pc = "start"
    /\ text # <<>>
    /\ \E c \in Candidates :
        /\ content' = c
        /\ found' = FirstMatch(text, c)
    /\ pc' = "candidate"
    /\ UNCHANGED <<text, instruction, outcome, files>>

\* The snippet is searched for in its own text with one run of blanks
\* between two tokens replaced by another run.
MatchRespaced ==
    /\ pc = "start"
    /\ \E g \in TokenGaps(text), r \in Runs :
        /\ r # SubSeq(text, g[1], g[2])
        /\ content' = Prefix(text, g[1] - 1) \o r \o Suffix(text, g[2])
        /\ found' = FirstMatch(text, content')
    /\ pc' = "respaced"
    /\ UNCHANGED <<text, instruction, outcome, files>>

\* The snippet is searched for in its own lines joined with \n or \r\n.
MatchRejoined ==
    /\ pc = "start"
    /\ Len(splitlines(text)) >= 2
    /\ \E nl \in {<<LF>>, <<CR, LF>>} :
        /\ content' = Join(nl, splitlines(text))
        /\ found' = FirstMatch(text, content')
    /\ pc' = "rejoined"
    /\ UNCHANGED <<text, instruction, outcome, files>>

NextMatch == MatchCandidate \/ MatchRespaced \/ MatchRejoined

SpecMatch == InitMatch /\ [][NextMatch]_vars

----------------------------------------------------------------------------
(* _apply_instruction on its own: one instruction is applied to one text.   *)

MaxFind    == 2
MaxContent == 4
MaxReplace == 1
MaxWrite   == 1

Kinds        == {"update", "insert", "delete", "rename"}
FindChars    == {"a", SP, LF}
ContentChars == {"a", SP, LF}
ReplaceChars == {"c"}
WriteChars   == {"w"}

Instructions ==
    [type : Kinds,
     find : Strings(FindChars, MaxFind),
     replace : Strings(ReplaceChars, MaxReplace),
     write : Strings(WriteChars, MaxWrite)]

Contents == Strings(ContentChars, MaxContent)

InitApply ==
    /\ pc = "call"
    /\ instruction \in Instructions
    /\ content \in Contents
    /\ outcome = NoOutcome
    /\ text = <<>>
    /\ found = None
    /\ NoFiles

Apply ==
    /\ pc = "call"
    /\ outcome' = apply_instruction(instruction, content)
    /\ pc' = IF outcome'.raised THEN "raise" ELSE "return"
    /\ UNCHANGED <<text, instruction, content, found, files>>

NextApply == Apply

SpecApply == InitApply /\ [][NextApply]_vars

(* Update instructions with a wider range of replacement texts. *)

MaxTemplate == 2

TemplateChars == {"c", BSL, "1"}

Updates ==
    [type : {"update"},
     find : Strings(FindChars, MaxFind),
     replace : Strings(TemplateChars, MaxTemplate),
     write : {<<>>}]

InitUpdate ==
    /\ pc = "call"
    /\ instruction \in Updates
    /\ content \in Contents
    /\ outcome = NoOutcome
    /\ text = <<>>
    /\ found = None
    /\ NoFiles

SpecUpdate == InitUpdate /\ [][NextApply]_vars

----------------------------------------------------------------------------
(* _apply_instructions: a batch of instructions is applied to the files.    *)

MaxBatch == 2

Filenames == {"a.py", "./a.py", "b.py", TooLong, ""}

\* What an instruction of a batch asks for: a -> b, b -> c, a replacement
\* that is no template, and something the files do not hold.
BatchOps ==
    {[type |-> "update", find |-> <<"a">>, replace |-> <<"b">>, write |-> <<>>],
     [type |-> "update", find |-> <<"b">>, replace |-> <<"c">>, write |-> <<>>],
     [type |-> "update", find |-> <<"a">>, replace |-> <<BSL>>, write |-> <<>>],
     [type |-> "delete", find |-> <<"q">>, replace |-> <<>>, write |-> <<>>]}

BatchInstructions ==
    {[filename |-> f, type |-> op.type, find |-> op.find,
      replace |-> op.replace, write |-> op.write] :
        f \in Filenames, op \in BatchOps}

Batches == Strings(BatchInstructions, MaxBatch)

\* The files before the call: a.py is a file, which may be read-only and
\* may have \r\n line ends; b.py is a file, a directory or missing.
Disks ==
    {[f \in {"a.py", "b.py"} |-> IF f = "a.py" THEN a ELSE b] :
        a \in [kind : {"file", "readonly"}, bytes : {<<"a">>, <<"a", CR, LF>>}],
        b \in {[kind |-> "file", bytes |-> <<"a">>],
               [kind |-> "dir", bytes |-> <<>>],
               [kind |-> "missing", bytes |-> <<>>]}}

InitBatch ==
    /\ pc = "call"
    /\ batch \in Batches
    /\ disk \in Disks
    /\ disk0 = disk
    /\ groups = <<>>
    /\ group = 0
    /\ position = 0
    /\ gstate = <<>>
    /\ loaded = <<>>
    /\ text = <<>>
    /\ found = None
    /\ instruction = NoInstruction
    /\ content = <<>>
    /\ outcome = NoOutcome

\* The filename of the group the loop of line 263 is at
filename == groups[group]

\* `continue`, the end of the body or the handler of line 283: the loop
\* goes to the next filename, and the call returns after the last.
NextGroup ==
    /\ group' = group + 1
    /\ pc' = IF group < Len(groups) THEN "exists" ELSE "done"

\* Lines 258-261: the batch is grouped by filename.
Group ==
    /\ pc = "call"
    /\ groups' = instructions_by_file_keys(batch)
    /\ gstate' = [i \in 1..Len(groups') |-> "Pending"]
    /\ group' = 1
    /\ pc' = IF groups' = <<>> THEN "done" ELSE "exists"
    /\ UNCHANGED <<text, instruction, content, found, outcome,
                   batch, disk, disk0, position, loaded>>

\* Lines 265-268: the existence check, outside the try block. An exception
\* of it leaves _apply_instructions.
Exists ==
    /\ pc = "exists"
    /\ IF exists_raises(filename)
       THEN /\ pc' = "raise"
            /\ UNCHANGED <<group, gstate>>
       ELSE IF ~exists(disk, filename)
       THEN /\ gstate' = [gstate EXCEPT ![group] = "Skipped"]
            /\ NextGroup
       ELSE /\ gstate' = [gstate EXCEPT ![group] = "Loaded"]
            /\ pc' = "read"
            /\ UNCHANGED group
    /\ UNCHANGED <<text, instruction, content, found, outcome,
                   batch, disk, disk0, groups, position, loaded>>

\* Lines 270-272: the file is read.
Read ==
    /\ pc = "read"
    /\ IF read_raises(disk, filename)
       THEN /\ gstate' = [gstate EXCEPT ![group] = "Failed"]
            /\ NextGroup
            /\ UNCHANGED <<content, loaded, position>>
       ELSE /\ content' = read(disk, filename)
            /\ loaded' = content'
            /\ position' = 1
            /\ pc' = "apply"
            /\ UNCHANGED <<group, gstate>>
    /\ UNCHANGED <<text, instruction, found, outcome,
                   batch, disk, disk0, groups>>

\* A bug to measure the claims against: the content is written to the
\* file after every instruction.
ApplyNext_flushing ==
    /\ pc = "apply"
    /\ instruction' = instructions_by_file(batch, filename)[position]
    /\ outcome' = apply_instruction(instruction', content)
    /\ IF outcome'.raised
       THEN /\ gstate' = [gstate EXCEPT ![group] = "Failed"]
            /\ NextGroup
            /\ UNCHANGED <<content, position, disk>>
       ELSE /\ content' = outcome'.ret
            /\ position' = position + 1
            /\ gstate' = [gstate EXCEPT ![group] = "Interpreting"]
            /\ disk' = IF write_raises(disk, filename) THEN disk
                       ELSE write(disk, filename, content')
            /\ pc' = IF position < Len(instructions_by_file(batch, filename))
                     THEN "apply" ELSE "write"
            /\ UNCHANGED group
    /\ UNCHANGED <<text, found, batch, disk0, groups, loaded>>

\* Lines 274-276: the next instruction of the group is applied to the
\* content in memory.
ApplyNext ==
    /\ pc = "apply"
    /\ instruction' = instructions_by_file(batch, filename)[position]
    /\ outcome' = apply_instruction(instruction', content)
    /\ IF outcome'.raised
       THEN /\ gstate' = [gstate EXCEPT ![group] = "Failed"]
            /\ NextGroup
            /\ UNCHANGED <<content, position>>
       ELSE /\ content' = outcome'.ret
            /\ position' = position + 1
            /\ gstate' = [gstate EXCEPT ![group] = "Interpreting"]
            /\ pc' = IF position < Len(instructions_by_file(batch, filename))
                     THEN "apply" ELSE "write"
            /\ UNCHANGED group
    /\ UNCHANGED <<text, found, batch, disk, disk0, groups, loaded>>

\* Lines 278-281: the content is written back.
Write ==
    /\ pc = "write"
    /\ IF write_raises(disk, filename)
       THEN /\ gstate' = [gstate EXCEPT ![group] = "Failed"]
            /\ UNCHANGED disk
       ELSE /\ gstate' = [gstate EXCEPT ![group] = "Written"]
            /\ disk' = write(disk, filename, content)
    /\ NextGroup
    /\ UNCHANGED <<text, instruction, content, found, outcome,
                   batch, disk0, groups, position, loaded>>

NextBatch == Group \/ Exists \/ Read \/ ApplyNext \/ Write

SpecBatch == InitBatch /\ [][NextBatch]_vars

(* The same call with the file groups taken in an arbitrary order. *)

\* The orders in which the filenames of `keys` can be taken
Orders(keys) ==
    {o \in [1..Len(keys) -> {keys[i] : i \in 1..Len(keys)}] :
        \A i, j \in 1..Len(keys) : o[i] = o[j] => i = j}

\* Lines 258-263, with the order of instructions_by_file.items() left open
GroupInAnyOrder ==
    /\ pc = "call"
    /\ groups' \in Orders(instructions_by_file_keys(batch))
    /\ gstate' = [i \in 1..Len(groups') |-> "Pending"]
    /\ group' = 1
    /\ pc' = IF groups' = <<>> THEN "done" ELSE "exists"
    /\ UNCHANGED <<text, instruction, content, found, outcome,
                   batch, disk, disk0, position, loaded>>

NextAnyOrder == GroupInAnyOrder \/ Exists \/ Read \/ ApplyNext \/ Write

SpecAnyOrder == InitBatch /\ [][NextAnyOrder]_vars

----------------------------------------------------------------------------
(* Properties of the matcher *)

\* Offset at which the pattern of line i of the snippet starts, in the match
\* of the snippet that starts at offset p of s.
LineStart(snippet, s, p, i) ==
    IF i = 1 THEN p
    ELSE MatchEnd(compile(Join(NewlinePat, SubSeq(pattern_lines(snippet), 1, i - 1))
                          \o NewlinePat).code, s, p)

\* Offset at which the line of s that holds offset q begins.
LineBegin(s, q) ==
    CHOOSE b \in 0..q :
        /\ b = 0 \/ s[b] \in LineBreaks
        /\ \A k \in (b + 1)..q : s[k] \notin LineBreaks

\* Leading whitespace of the line of s that holds offset q.
LeadingWhitespace(s, q) ==
    LET b == LineBegin(s, q)
    IN SubSeq(s, b + 1, b + RunLen(s, b, {SP, TAB}, Len(s)))

\* C1: whenever the compiled matcher matches a text, the leading whitespace
\* of the text's line that corresponds to line i of the snippet is the
\* indentation of line i, for every line of the snippet, the first included.
C1_IndentationExact ==
    found # None =>
        \A i \in 1..Len(splitlines(text)) :
            LeadingWhitespace(content, LineStart(text, content, found.start, i))
                = indent(splitlines(text)[i])

\* C2: a snippet still matches its own text after one run of blanks between
\* two tokens of a line is replaced by a different non-empty run of spaces
\* and tabs.
C2_RespacedStillMatches == pc = "respaced" => found # None

\* C3: a snippet of two or more lines matches its own lines, joined with \n
\* or with \r\n.
C3_RejoinedStillMatches == pc = "rejoined" => found # None

----------------------------------------------------------------------------
(* Properties of _apply_instruction *)

\* The offsets of s at which a non-empty span matches the pattern of
\* `find`: the occurrences of find in s.
Occurrences(find, s) ==
    {p \in MatchStarts(Matcher(find), s) : MatchEnd(Matcher(find), s, p) > p}

\* sub is a substring of s
Contains(s, sub) ==
    \E p \in 0..(Len(s) - Len(sub)) : SubSeq(s, p + 1, p + Len(sub)) = sub

\* s.count(sub) for a non-empty sub: occurrences that do not overlap,
\* counted from the left.
RECURSIVE CountFrom(_, _, _)
CountFrom(s, sub, p) ==
    IF p + Len(sub) > Len(s) THEN 0
    ELSE IF SubSeq(s, p + 1, p + Len(sub)) = sub
         THEN 1 + CountFrom(s, sub, p + Len(sub))
         ELSE CountFrom(s, sub, p + 1)

Count(s, sub) == CountFrom(s, sub, 0)

\* The characters of s at the positions of K, in their order.
RECURSIVE Pick(_, _, _)
Pick(s, K, i) ==
    IF i > Len(s) THEN <<>>
    ELSE (IF i \in K THEN <<s[i]>> ELSE <<>>) \o Pick(s, K, i + 1)

Applied == pc # "call"

\* C4: an Update with find and replace, applied to a text with one or more
\* occurrences of find, returns a text with no occurrence of find's text and
\* with one occurrence of replace for each match (replace holding no
\* character of find).
C4_UpdateReplacesAll ==
    (/\ Applied
     /\ instruction.type = "update"
     /\ instruction.find # <<>> /\ instruction.replace # <<>>
     /\ \A i \in 1..Len(instruction.replace) :
            \A j \in 1..Len(instruction.find) :
                instruction.replace[i] # instruction.find[j]
     /\ Occurrences(instruction.find, content) # {})
    => /\ pc = "return"
       /\ ~Contains(outcome.ret, instruction.find)
       /\ Count(outcome.ret, instruction.replace)
            = subn(Matcher(instruction.find), <<>>, content).n

\* C5: whenever an Update applied to a text with a match returns, it
\* returns the text with each match replaced by the replace text, character
\* for character, whatever the replace text holds.
C5_ReplaceIsLiteral ==
    (/\ pc = "return"
     /\ instruction.type = "update"
     /\ instruction.find # <<>> /\ instruction.replace # <<>>
     /\ MatchStarts(Matcher(instruction.find), content) # {})
    => outcome.ret
         = subn(Matcher(instruction.find), instruction.replace, content).ret

\* C6: an Insert with find and write, applied to a text with one or more
\* matches, returns content[:e] + "\n" + write + content[e:] where e is the
\* end of the leftmost match.
C6_InsertSinglePoint ==
    (/\ Applied
     /\ instruction.type = "insert"
     /\ instruction.find # <<>> /\ instruction.write # <<>>
     /\ MatchStarts(Matcher(instruction.find), content) # {})
    => /\ pc = "return"
       /\ \E p \in MatchStarts(Matcher(instruction.find), content) :
            /\ \A q \in MatchStarts(Matcher(instruction.find), content) : p <= q
            /\ LET e == MatchEnd(Matcher(instruction.find), content, p)
               IN outcome.ret = Prefix(content, e) \o <<LF>> \o instruction.write
                                    \o Suffix(content, e)

\* An Insert was applied to a text with two matches.
C6_Witness ==
    /\ pc = "return"
    /\ instruction.type = "insert"
    /\ instruction.find # <<>> /\ instruction.write # <<>>
    /\ Cardinality(Occurrences(instruction.find, content)) >= 2
    /\ outcome.ret # content

\* C7 as stated: a Delete with find, applied to a text with one or more
\* occurrences of find, returns a text with no occurrence of find.
C7_DeleteLeavesNoOccurrence ==
    (/\ Applied
     /\ instruction.type = "delete"
     /\ instruction.find # <<>>
     /\ Occurrences(instruction.find, content) # {})
    => /\ pc = "return"
       /\ Occurrences(instruction.find, outcome.ret) = {}

\* C7 as amended: a Delete with find, applied to a text with one or more
\* occurrences of find, returns the characters of the text at a set K of
\* positions, in their order, where every position left out lies in a match
\* that is left out as a whole and every occurrence of find in the text has
\* lost a character.
C7_DeleteRemovesEveryMatch ==
    (/\ Applied
     /\ instruction.type = "delete"
     /\ instruction.find # <<>>
     /\ Occurrences(instruction.find, content) # {})
    => /\ pc = "return"
       /\ LET code == Matcher(instruction.find)
              Span(p) == (p + 1)..MatchEnd(code, content, p)
          IN \E K \in SUBSET (1..Len(content)) :
                /\ outcome.ret = Pick(content, K, 1)
                /\ \A k \in (1..Len(content)) \ K :
                      \E p \in MatchStarts(code, content) :
                          k \in Span(p) /\ Span(p) \cap K = {}
                /\ \A p \in Occurrences(instruction.find, content) :
                      ~(Span(p) \subseteq K)

\* A Delete was applied to a text with two occurrences of find.
C7_Witness ==
    /\ pc = "return"
    /\ instruction.type = "delete"
    /\ Cardinality(Occurrences(instruction.find, content)) >= 2
    /\ Occurrences(instruction.find, outcome.ret) = {}
    /\ outcome.ret # <<>>

\* C8: an update, insert or delete whose pattern has no match in the text
\* returns the text unchanged.
C8_NoMatchReturnsContent ==
    (/\ Applied
     /\ instruction.type \in {"update", "insert", "delete"}
     /\ instruction.find # <<>>
     /\ MatchStarts(Matcher(instruction.find), content) = {})
    => /\ pc = "return"
       /\ outcome.ret = content

\* C9: _apply_instruction never raises.
C9_NeverRaises == pc # "raise" /\ ~outcome.raised

\* An instruction of no known kind, or without a field its kind needs.
Malformed(instr) ==
    \/ instr.type \notin {"update", "insert", "delete"}
    \/ instr.find = <<>>
    \/ instr.type = "update" /\ instr.replace = <<>>
    \/ instr.type = "insert" /\ instr.write = <<>>

\* C10: a malformed instruction returns the text unchanged and logs no
\* warning.
C10_MalformedIsInert ==
    (Applied /\ Malformed(instruction))
    => /\ pc = "return"
       /\ outcome.ret = content
       /\ ~outcome.warned

\* An update without replace was applied to a text that its find matches.
C10_Witness ==
    /\ pc = "return"
    /\ instruction.type = "update"
    /\ instruction.replace = <<>>
    /\ Occurrences(instruction.find, content) # {}

----------------------------------------------------------------------------
(* Properties of _apply_instructions *)

\* The instructions of the batch for filename f, in the order of the batch
InBatchOrder(f) == SelectSeq(batch, LAMBDA i : i.filename = f)

\* The content a sequence of instructions leaves of s when each is applied
\* to the result of the one before
Fold(instrs, s) == ApplyFrom(instrs, 1, s).ret

\* C11: the instructions of a filename are applied in batch order, the first
\* to the content as read and each to the result of the one before: the
\* content in memory after i instructions is the fold of the first i of the
\* batch for that filename, and the content written is the fold of all.
C11_OrderWithinFile ==
    /\ pc \in {"apply", "write"} =>
        content = Fold(SubSeq(InBatchOrder(filename), 1, position - 1), loaded)
    /\ pc \in {"exists", "done"} /\ group > 1 /\ gstate[group - 1] = "Written" =>
        disk[Resolve(groups[group - 1])].bytes
            = write_newlines(Fold(InBatchOrder(groups[group - 1]), loaded))

\* a -> b then b -> c on a.py, which held a, has been written and left c.
C11_Witness ==
    /\ pc = "done"
    /\ Len(batch) = 2
    /\ batch[1].replace = <<"b">> /\ batch[2].replace = <<"c">>
    /\ gstate = <<"Written">>
    /\ disk0["a.py"].bytes = <<"a">>
    /\ disk["a.py"].bytes = <<"c">>

\* The groups of the batch whose file is missing, and those whose file is a
\* regular file that can be read and written
MissingGroups == {g \in 1..Len(groups) :
                    ~exists_raises(groups[g]) /\ ~exists(disk0, groups[g])}

ExistingGroups == {g \in 1..Len(groups) :
                     /\ ~exists_raises(groups[g])
                     /\ disk0[Resolve(groups[g])].kind = "file"}

\* C12: when the call has ended on a batch one of whose files is missing,
\* the group of the missing file was skipped and the file is still missing,
\* and the group of every other file that exists was applied and written.
C12_MissingFileIsolated ==
    pc \in {"done", "raise"} /\ MissingGroups # {} =>
        /\ \A g \in MissingGroups :
            /\ gstate[g] \in {"Skipped", "Pending"}
            /\ disk[Resolve(groups[g])] = disk0[Resolve(groups[g])]
        /\ \A g \in ExistingGroups : gstate[g] = "Written"

\* C13: no failure of a group leaves _apply_instructions, and the groups
\* after a failing one are still processed: the call never ends with an
\* exception, and when it has ended no group is left unprocessed.
C13_ExceptionsContained ==
    /\ pc # "raise"
    /\ pc = "done" => \A g \in 1..Len(groups) : gstate[g] # "Pending"

\* C14: the groups are independent: in whatever order the groups are
\* processed, every file ends with the content it has when they are
\* processed in the order of the batch.
C14_GroupsIndependent ==
    pc \in {"done", "raise"} =>
        \A f \in DOMAIN disk :
            disk[f] = process_groups(disk0, batch, instructions_by_file_keys(batch), 1)[f]

\* The moves of a group. Interpreting is the part of Loaded in which the
\* instructions are applied, so that a group fails from either.
GroupMoves ==
    {<<"Pending", "Loaded">>, <<"Loaded", "Interpreting">>,
     <<"Interpreting", "Interpreting">>, <<"Interpreting", "Written">>,
     <<"Loaded", "Written">>, <<"Pending", "Skipped">>,
     <<"Loaded", "Failed">>, <<"Interpreting", "Failed">>}

\* The moves of C15: every group starts in Pending and changes its state
\* only along the moves of the state machine, so never out of Written,
\* Skipped or Failed.
C15_Transitions ==
    [][/\ pc = "call" => \A g \in 1..Len(groups') : gstate'[g] = "Pending"
       /\ pc # "call" => \A g \in 1..Len(groups) :
            gstate'[g] # gstate[g] => <<gstate[g], gstate'[g]>> \in GroupMoves]_vars

\* C15: every call ends with each group in one of the terminal states
\* Written, Skipped and Failed, which the groups reach along the moves of
\* the state machine.
C15_GroupStateMachine ==
    /\ \A g \in 1..Len(gstate) :
        gstate[g] \in {"Pending", "Loaded", "Interpreting", "Written", "Skipped", "Failed"}
    /\ pc \in {"done", "raise"} =>
        \A g \in 1..Len(groups) : gstate[g] \in {"Written", "Skipped", "Failed"}

\* The files as the groups before the g-th leave them
FilesBefore(g) == process_groups(disk0, batch, SubSeq(groups, 1, g - 1), 1)

\* The g-th group has failed in its read or in one of its instructions,
\* seen when the loop has just left it.
FailedBeforeWrite(g) ==
    /\ gstate[g] = "Failed"
    /\ read_raises(disk, groups[g]) \/ outcome.raised

\* C16: when a group has failed in its read or in one of its instructions,
\* its file holds what it held when the group began: nothing of the
\* instructions applied before the failure is written.
C16_FailedGroupLeavesFile ==
    pc \in {"exists", "done"} /\ group > 1 /\ FailedBeforeWrite(group - 1) =>
        disk = FilesBefore(group - 1)

\* The second instruction of a group has raised after the first changed the
\* content in memory, and the files are as before the call.
C16_Witness ==
    /\ pc = "done"
    /\ gstate = <<"Failed">>
    /\ outcome.raised
    /\ position = 2
    /\ content # loaded
    /\ disk = disk0

----------------------------------------------------------------------------
(* Further properties of the matcher *)

\* The number of lines a text spans: one more than its line breaks, \r\n
\* being one.
RECURSIVE LineBreaksIn(_)
LineBreaksIn(s) ==
    IF s = <<>> THEN 0
    ELSE IF Head(s) = CR /\ Len(s) >= 2 /\ s[2] = LF THEN 1 + LineBreaksIn(Suffix(s, 2))
    ELSE IF Head(s) \in LineBreaks THEN 1 + LineBreaksIn(Tail(s))
    ELSE LineBreaksIn(Tail(s))

LinesSpanned(s) == LineBreaksIn(s) + 1

\* C17: a snippet of n lines matches only text that spans n lines: the
\* blanks between two tokens of a line match no line break.
C17_NewlineBoundaries ==
    pc = "candidate" /\ found # None =>
        LinesSpanned(SubSeq(content, found.start + 1, found.end))
            = Len(splitlines(text))

----------------------------------------------------------------------------
(* Further properties of _apply_instructions *)

\* An instruction that leaves the text s as it is: of no known kind,
\* lacking a field, or with a `find` that s has no match of.
NoOp(instr, s) == Malformed(instr) \/ FirstMatch(instr.find, s) = None

\* The instructions of the batch for the file f, under any of its names
Targeting(f) == SelectSeq(batch, LAMBDA i : i.filename # "" /\ Resolve(i.filename) = f)

\* C18: when the call has ended, a file that exists and that the batch
\* targets with no-ops only has the bytes it had before the call.
C18_NoOpKeepsBytes ==
    pc \in {"done", "raise"} =>
        \A f \in DOMAIN disk :
            (/\ disk0[f].kind \in {"file", "readonly"}
             /\ Targeting(f) # <<>>
             /\ \A i \in 1..Len(Targeting(f)) :
                    NoOp(Targeting(f)[i], universal_newlines(disk0[f].bytes)))
            => disk[f].bytes = disk0[f].bytes

----------------------------------------------------------------------------
(* Further properties of _apply_instruction *)

\* C19: every match of the pattern of a non-empty `find` covers one or more
\* characters of the content, so that no Update, Insert or Delete acts at
\* an empty match.
C19_MatchesNeverEmpty ==
    Applied /\ instruction.find # <<>> /\ ~Malformed(instruction) =>
        \A p \in MatchStarts(Matcher(instruction.find), content) :
            MatchEnd(Matcher(instruction.find), content, p) > p

====
